---- MODULE Spec2Model ----
(***************************************************************************)
(* Model of the PhishTank graph dashboard (src/app.py): the cached loader, *)
(* the three relationship-graph tabs (graph build, degree filter,          *)
(* neighbourhood closure, induced subgraph) as one top-to-bottom script    *)
(* run that a user interaction restarts.                                   *)
(***************************************************************************)
EXTENDS Integers, Sequences, FiniteSets, TLC

VARIABLES
    file,          \* phishing_data.json: the ordered raw records
    cache,         \* st.cache_data entries of load_data (empty until first call)
    df,            \* module-level df = load_data()
    pc,            \* position of the script run
    tab,           \* the tab block being executed (1, 2, 3)
    df_tab,        \* df1 / df2 / df3: df.dropna(subset=...)
    i,             \* rows of df_tab already consumed by the iterrows loop
    G,             \* the nx.Graph of the current tab
    min_degree,    \* min_degree_ip / min_degree_domain / min_degree_target
    high_degree,   \* high_degree_ips / high_degree_domains / high_degree_targets
    nodes_to_draw, \* the working node set
    subgraph,      \* G.subgraph(nodes_to_draw)
    loads,         \* how many times the body of load_data has run
    df_time,       \* tab 4: df_time = load_data_with_time()
    month_lookup,  \* tab 4: the distinct (month_key, month_label) rows, newest first
    selected_label,\* tab 4: the option returned by st.selectbox
    target_counts, \* tab 4: df_month["target"].value_counts()
    headline       \* tab 4: the "most targeted" message written by st.markdown

tab4_vars == <<df_time, month_lookup, selected_label, target_counts, headline>>

vars == <<file, cache, df, pc, tab, df_tab, i, G, min_degree, high_degree,
          nodes_to_draw, subgraph, loads, tab4_vars>>

(***************************************************************************)
(* Bounds of the model.                                                    *)
(***************************************************************************)
MaxRows == 3          \* longest input file explored by Spec
MaxThreshold == 3     \* largest widget value explored
MaxScenarioRows == 4  \* longest input file explored by SpecScenario
MaxTimeRows == 3      \* longest input file explored by SpecTime

(***************************************************************************)
(* Program constants.                                                      *)
(***************************************************************************)
HeadRows == 300       \* df.head(300)
MinValue == 1         \* min_value of the three number_input widgets
MaxValueIp == 100     \* max_value of min_degree_ip
MaxValueDomain == 10  \* max_value of min_degree_domain
MaxValueTarget == 200 \* max_value of min_degree_target

None == "None"        \* Python None / pandas NaN

Min(a, b) == IF a <= b THEN a ELSE b

Range(s) == {s[k] : k \in 1..Len(s)}

(***************************************************************************)
(* Raw input.  A URL is a sequence of tokens: an optional scheme token, an *)
(* optional "//" token followed by the host token, then path tokens.       *)
(***************************************************************************)
Schemes == {"http:", "https:"}
Delims == {"/", "?", "#"}

UrlD1 == <<"http:", "//", "d1.example", "/", "login">>
UrlD2 == <<"https:", "//", "d2.example", "/", "login">>
UrlD3 == <<"http:", "//", "d3.example">>
UrlIp1 == <<"http:", "//", "1.1.1.1", "/", "login">>
UrlBad == <<"http:", "//", "[2001:db8", "/", "login">>
UrlNoNetloc == <<"d1.example", "/", "login">>

\* submission_time values: ISO timestamps (year, month, day), a JSON null,
\* and a string that is no timestamp
Jan15 == [kind |-> "iso", y |-> 2024, m |-> 1, d |-> 15]
Jan20 == [kind |-> "iso", y |-> 2024, m |-> 1, d |-> 20]
Feb01 == [kind |-> "iso", y |-> 2024, m |-> 2, d |-> 1]
TimeNull == [kind |-> "null", y |-> 0, m |-> 0, d |-> 0]
TimeText == [kind |-> "text", y |-> 0, m |-> 0, d |-> 0]

Ip1 == "1.1.1.1"
Ip2 == "2.2.2.2"

Urls == {UrlD1, UrlIp1}
DetailsValues == {<<>>, <<[ip_address |-> Ip1]>>, <<[ip_address |-> Ip2]>>}
Targets == {"PayPal", "Other"}

\* the records of the input file: every combination of a parseable url, a
\* details list and a target, and one record whose url urlparse rejects
RawRecords ==
    [url : Urls, details : DetailsValues, target : Targets, submission_time : {Jan15}] \cup
    {[url |-> UrlBad, details |-> <<[ip_address |-> Ip1]>>, target |-> "PayPal",
      submission_time |-> Jan15]}

\* records with well-formed urls beside records whose url has no "//" and
\* records whose url urlparse rejects
MalformedRecords ==
    { [url |-> UrlD1, details |-> <<[ip_address |-> Ip1]>>, target |-> "PayPal", submission_time |-> Jan15],
      [url |-> UrlD1, details |-> <<[ip_address |-> Ip2]>>, target |-> "Other", submission_time |-> Jan15],
      [url |-> UrlNoNetloc, details |-> <<[ip_address |-> Ip1]>>, target |-> "PayPal", submission_time |-> Jan15],
      [url |-> UrlNoNetloc, details |-> <<[ip_address |-> Ip2]>>, target |-> "Other", submission_time |-> Jan15],
      [url |-> UrlBad, details |-> <<[ip_address |-> Ip1]>>, target |-> "PayPal", submission_time |-> Jan15] }

\* The relation {(d1,ip1),(d1,ip2),(d2,ip1),(d3,ip1)} as raw records.
ScenarioRecords ==
    { [url |-> UrlD1, details |-> <<[ip_address |-> Ip1]>>, target |-> "PayPal", submission_time |-> Jan15],
      [url |-> UrlD1, details |-> <<[ip_address |-> Ip2]>>, target |-> "PayPal", submission_time |-> Jan15],
      [url |-> UrlD2, details |-> <<[ip_address |-> Ip1]>>, target |-> "PayPal", submission_time |-> Jan15],
      [url |-> UrlD3, details |-> <<[ip_address |-> Ip1]>>, target |-> "Other", submission_time |-> Jan15] }

(***************************************************************************)
(* load_data                                                               *)
(***************************************************************************)
\* details[0].get("ip_address") when details is a non-empty list, else None
extract_ip(details) ==
    IF Len(details) > 0 THEN details[1].ip_address ELSE None

\* urlsplit raises ValueError on a netloc with an unmatched bracket
InvalidIPv6(netloc) == netloc \in {"[2001:db8"}

\* urlparse(url).netloc: drop the scheme, and when the rest starts with "//"
\* the netloc runs up to the first "/", "?" or "#"; otherwise it is empty
urlparse_netloc(url) ==
    LET rest == IF Len(url) > 0 /\ url[1] \in Schemes THEN Tail(url) ELSE url
    IN  IF Len(rest) > 0 /\ rest[1] = "//"
        THEN IF Len(rest) > 1 /\ rest[2] \notin Delims THEN rest[2] ELSE ""
        ELSE ""

\* try: return urlparse(url).netloc / except: return None
extract_domain(url) ==
    IF InvalidIPv6(urlparse_netloc(url)) THEN None ELSE urlparse_netloc(url)

\* df.head(n)
head(rows, n) == SubSeq(rows, 1, Min(n, Len(rows)))

\* the body of load_data: head(300), then the derived columns ip and domain
load_data_body(raw) ==
    LET h == head(raw, HeadRows)
    IN  [k \in 1..Len(h) |->
            [url |-> h[k].url, details |-> h[k].details, target |-> h[k].target,
             ip |-> extract_ip(h[k].details),
             domain |-> extract_domain(h[k].url)]]

(***************************************************************************)
(* The tabs: columns, node kinds, filtered kind, comparison.               *)
(***************************************************************************)
Tabs == {1, 2, 3}

\* the second column of the tab's relation (the first is always "domain")
OtherColumn(t) == IF t = 3 THEN "target" ELSE "ip"

\* the kind the tab's degree filter selects
FilterKind(t) == CASE t = 1 -> "ip" [] t = 2 -> "domain" [] t = 3 -> "target"

\* max_value of the tab's number_input
MaxValue(t) ==
    CASE t = 1 -> MaxValueIp [] t = 2 -> MaxValueDomain [] t = 3 -> MaxValueTarget

\* the values the tab's number_input can return
Thresholds(t) == MinValue..Min(MaxValue(t), MaxThreshold)

\* value of a column of a row
Col(row, c) ==
    CASE c = "domain" -> row.domain [] c = "ip" -> row.ip [] c = "target" -> row.target

\* df.dropna(subset=["domain", other])
RECURSIVE dropna(_, _)
dropna(rows, t) ==
    IF rows = <<>> THEN <<>>
    ELSE LET r == Head(rows)
         IN  IF r.domain = None \/ Col(r, OtherColumn(t)) = None
             THEN dropna(Tail(rows), t)
             ELSE <<r>> \o dropna(Tail(rows), t)

(***************************************************************************)
(* networkx.Graph: node |-> attribute "type", adj |-> neighbour sets.      *)
(***************************************************************************)
EmptyGraph == [node |-> <<>>, adj |-> <<>>]

Nodes(g) == DOMAIN g.node

\* Graph.add_node(n, type=t): a new node gets an empty adjacency; an existing
\* node has its attribute dictionary updated
add_node(g, n, t) ==
    [node |-> (n :> t) @@ g.node,
     adj  |-> IF n \in Nodes(g) THEN g.adj ELSE (n :> {}) @@ g.adj]

\* an edge recorded at one endpoint only
add_edge_one_way(g, u, v) ==
    [node |-> g.node,
     adj  |-> [n \in DOMAIN g.adj |-> g.adj[n] \cup (IF n = u THEN {v} ELSE {})]]

\* Graph.add_edge(u, v): both adjacency entries are set
add_edge(g, u, v) ==
    [node |-> g.node,
     adj  |-> [n \in DOMAIN g.adj |->
                 g.adj[n] \cup (IF n = u THEN {v} ELSE {})
                          \cup (IF n = v THEN {u} ELSE {})]]

\* one iteration of "for _, row in df_tab.iterrows()"
AddRowTo(g, row, t) ==
    LET domain == row.domain
        other == Col(row, OtherColumn(t))
    IN  add_edge(add_node(add_node(g, domain, "domain"), other, OtherColumn(t)),
                 domain, other)

\* Graph.degree(): neighbours, a self-loop counted twice
Degree(g, n) == Cardinality(g.adj[n]) + (IF n \in g.adj[n] THEN 1 ELSE 0)

\* Graph.neighbors(n)
Neighbors(g, n) == g.adj[n]

RECURSIVE SumDegree(_, _)
SumDegree(g, S) ==
    IF S = {} THEN 0
    ELSE LET n == CHOOSE x \in S : TRUE
         IN  Degree(g, n) + SumDegree(g, S \ {n})

\* Graph.number_of_nodes()
NumberOfNodes(g) == Cardinality(Nodes(g))

\* Graph.number_of_edges(): half the degree sum
NumberOfEdges(g) == SumDegree(g, Nodes(g)) \div 2

\* Graph.edges as unordered pairs (a self-loop is a singleton)
Edges(g) == UNION {{{u, v} : v \in g.adj[u]} : u \in DOMAIN g.adj}

\* the whole build loop over a table
RECURSIVE BuildGraph(_, _, _)
BuildGraph(g, rows, t) ==
    IF rows = <<>> THEN g
    ELSE BuildGraph(AddRowTo(g, Head(rows), t), Tail(rows), t)

\* a subgraph that keeps every edge touching a kept node
SubgraphLooseEdges(g, nbunch) ==
    LET keep == nbunch \cap Nodes(g)
    IN  [node |-> [n \in keep |-> g.node[n]],
         adj  |-> [n \in keep |-> g.adj[n]]]

\* G.subgraph(nbunch): the nodes of nbunch that are in G, with the adjacency
\* restricted to them
Subgraph(g, nbunch) ==
    LET keep == nbunch \cap Nodes(g)
    IN  [node |-> [n \in keep |-> g.node[n]],
         adj  |-> [n \in keep |-> g.adj[n] \cap keep]]

(***************************************************************************)
(* Degree filter.                                                          *)
(***************************************************************************)
\* the strict comparison in every tab
MeetsThresholdStrict(t, degree, m) == degree > m

\* the comparison turned around
MeetsThresholdReversed(t, degree, m) == IF t = 1 THEN degree < m ELSE degree <= m

\* the inclusive comparison in every tab
MeetsThresholdInclusive(t, degree, m) == degree >= m

\* the comparison of the tab: "degree > min_degree_ip" in tab 1,
\* "degree >= min_degree_domain" / "degree >= min_degree_target" in tabs 2, 3
MeetsThreshold(t, degree, m) == IF t = 1 THEN degree > m ELSE degree >= m

\* hub selection without the test of the node's type
HighDegreeAnyKind(g, t, m) ==
    {n \in Nodes(g) : MeetsThreshold(t, Degree(g, n), m)}

\* [node for node, degree in G.degree() if <comparison> and type == kind]
HighDegree(g, t, m) ==
    {n \in Nodes(g) : MeetsThreshold(t, Degree(g, n), m) /\ g.node[n] = FilterKind(t)}

\* a closure that also follows the neighbours of the neighbours
NodesToDrawTwoHop(g, hubs) ==
    LET one == hubs \cup UNION {Neighbors(g, h) : h \in hubs}
    IN  one \cup UNION {Neighbors(g, n) : n \in one}

\* the loop that adds every hub and every neighbour of a hub
RECURSIVE NodesToDraw(_, _)
NodesToDraw(g, hubs) ==
    IF hubs = {} THEN {}
    ELSE LET h == CHOOSE x \in hubs : TRUE
         IN  ({h} \cup Neighbors(g, h)) \cup NodesToDraw(g, hubs \ {h})

(***************************************************************************)
(* Tab 4: months and target counts.                                        *)
(***************************************************************************)
\* pd.to_datetime raises on a string that is no timestamp
to_datetime_raises(v) == v.kind = "text"

NaT == [nat |-> TRUE, y |-> 0, m |-> 0, d |-> 0]

\* pd.to_datetime of a value it accepts: the timestamp, NaT for a null
to_datetime(v) ==
    IF v.kind = "iso" THEN [nat |-> FALSE, y |-> v.y, m |-> v.m, d |-> v.d] ELSE NaT

\* .dt.to_period("M"): the day is dropped
to_period_M(t) == [nat |-> t.nat, y |-> t.y, m |-> t.m]

MonthNames == <<"January", "February", "March", "April", "May", "June", "July",
                "August", "September", "October", "November", "December">>

NaN == [nan |-> TRUE, text |-> <<>>]

\* .dt.strftime("%B %Y"): NaN for NaT
strftime_BY(t) ==
    IF t.nat THEN NaN ELSE [nan |-> FALSE, text |-> <<MonthNames[t.m], t.y>>]

\* the body of load_data_with_time, on a file whose timestamps all parse
load_data_with_time_body(raw) ==
    [k \in 1..Len(raw) |->
        LET t == to_datetime(raw[k].submission_time)
        IN  [submission_time |-> t, target |-> raw[k].target,
             month_key |-> to_period_M(t), month_label |-> strftime_BY(t)]]

\* DataFrame.drop_duplicates / first-appearance order of distinct values:
\* the first of equal rows is kept (missing values count as equal)
RECURSIVE drop_duplicates(_)
drop_duplicates(rows) ==
    IF rows = <<>> THEN <<>>
    ELSE LET init == drop_duplicates(SubSeq(rows, 1, Len(rows) - 1))
             last == rows[Len(rows)]
         IN  IF \E k \in 1..Len(init) : init[k] = last THEN init ELSE Append(init, last)

\* x put into s before the first element that x goes strictly before
InsertAt(s, x, p) == SubSeq(s, 1, p - 1) \o <<x>> \o SubSeq(s, p, Len(s))

\* a period as a number of months
KeyOrd(key) == key.y * 12 + key.m

\* descending month_key, missing keys last
KeyBefore(a, b) ==
    ~a.month_key.nat /\ (b.month_key.nat \/ KeyOrd(a.month_key) > KeyOrd(b.month_key))

\* .sort_values("month_key", ascending=False)
RECURSIVE sort_by_month_key(_)
sort_by_month_key(rows) ==
    IF rows = <<>> THEN <<>>
    ELSE LET init == sort_by_month_key(SubSeq(rows, 1, Len(rows) - 1))
             x == rows[Len(rows)]
             p == CHOOSE q \in 1..(Len(init) + 1) :
                      /\ \A k \in 1..(q - 1) : ~KeyBefore(x, init[k])
                      /\ q = Len(init) + 1 \/ KeyBefore(x, init[q])
         IN  InsertAt(init, x, p)

\* month_lookup = df_time[["month_key", "month_label"]].drop_duplicates()
\*                    .sort_values("month_key", ascending=False)
MonthLookup(dt) ==
    sort_by_month_key(drop_duplicates(
        [k \in 1..Len(dt) |->
            [month_key |-> dt[k].month_key, month_label |-> dt[k].month_label]]))

\* elementwise ==: a missing value equals nothing
PdEq(a, b, missing) == a # missing /\ b # missing /\ a = b

\* month_lookup[month_lookup["month_label"] == selected_label]["month_key"]
MatchingKeys(ml, label) ==
    SelectSeq(ml, LAMBDA r : PdEq(r.month_label, label, NaN))

\* df_month = df_time[df_time["month_key"] == selected_key]
MonthRows(dt, key) ==
    SelectSeq(dt, LAMBDA r : PdEq(r.month_key, key, to_period_M(NaT)))

\* descending count; equal counts keep the order of first appearance
RECURSIVE sort_by_count(_)
sort_by_count(entries) ==
    IF entries = <<>> THEN <<>>
    ELSE LET init == sort_by_count(SubSeq(entries, 1, Len(entries) - 1))
             x == entries[Len(entries)]
             p == CHOOSE q \in 1..(Len(init) + 1) :
                      /\ \A k \in 1..(q - 1) : ~(x.count > init[k].count)
                      /\ q = Len(init) + 1 \/ x.count > init[q].count
         IN  InsertAt(init, x, p)

\* df_month["target"].value_counts()
value_counts(rows) ==
    LET targets == [k \in 1..Len(rows) |-> rows[k].target]
        distinct == drop_duplicates(targets)
    IN  sort_by_count(
            [k \in 1..Len(distinct) |->
                [index |-> distinct[k],
                 count |-> Cardinality({j \in 1..Len(targets) : targets[j] = distinct[k]})]])

\* target_counts[target_counts.index != "Other"]
non_other(tc) == SelectSeq(tc, LAMBDA e : e.index # "Other")

\* Series.max()
series_max(sr) ==
    CHOOSE c \in {sr[k].count : k \in 1..Len(sr)} : \A k \in 1..Len(sr) : sr[k].count <= c

\* the label of the last maximum
idxmax_last(sr) ==
    sr[CHOOSE k \in 1..Len(sr) :
           /\ sr[k].count = series_max(sr)
           /\ \A j \in (k + 1)..Len(sr) : sr[j].count # series_max(sr)].index

\* Series.idxmax(): the label of the first maximum
idxmax(sr) ==
    sr[CHOOSE k \in 1..Len(sr) :
           /\ sr[k].count = series_max(sr)
           /\ \A j \in 1..(k - 1) : sr[j].count # series_max(sr)].index

\* the st.markdown message of lines 436-441
Headline(tc) ==
    IF non_other(tc) # <<>>
    THEN [kind |-> "top", target |-> idxmax(non_other(tc)), count |-> series_max(non_other(tc))]
    ELSE [kind |-> "none", target |-> "", count |-> 0]

(***************************************************************************)
(* The script run.                                                         *)
(***************************************************************************)
\* the input files of lo to hi records (read_json of an empty file has no
\* columns and the column selection of load_data raises, so lo is at least 1)
Files(records, lo, hi) == UNION {[1..n -> records] : n \in lo..hi}

InitWith(f) ==
    /\ file = f
    /\ cache = {}
    /\ df = <<>>
    /\ pc = "load"
    /\ tab = 1
    /\ df_tab = <<>>
    /\ i = 0
    /\ G = EmptyGraph
    /\ min_degree = 0
    /\ high_degree = {}
    /\ nodes_to_draw = {}
    /\ subgraph = EmptyGraph
    /\ loads = 0
    /\ df_time = <<>>
    /\ month_lookup = <<>>
    /\ selected_label = <<>>
    /\ target_counts = <<>>
    /\ headline = <<>>

Init == \E f \in Files(RawRecords, 1, MaxRows) : InitWith(f)

\* some ordering, possibly with repeated rows, of the scenario relation
InitScenario ==
    \E f \in Files(ScenarioRecords, Cardinality(ScenarioRecords), MaxScenarioRows) :
        /\ Range(f) = ScenarioRecords
        /\ InitWith(f)

\* records of two months, with three targets, and records whose
\* submission_time is missing or is no timestamp
TimeRecords ==
    [url : {UrlD1}, details : {<<[ip_address |-> Ip1]>>},
     target : {"Other", "PayPal", "Apple"}, submission_time : {Jan15, Jan20, Feb01}] \cup
    [url : {UrlD1}, details : {<<[ip_address |-> Ip1]>>},
     target : {"PayPal"}, submission_time : {TimeNull, TimeText}]

InitTime == \E f \in Files(TimeRecords, 1, MaxTimeRows) : InitWith(f)

\* the run in which load_data recomputes on every call
LoadDataUncached ==
    /\ pc = "load"
    /\ cache' = {load_data_body(file)}
    /\ loads' = loads + 1
    /\ df' = CHOOSE d \in cache' : TRUE
    /\ pc' = "tab_start"
    /\ tab' = 1
    /\ UNCHANGED <<file, df_tab, i, G, min_degree, high_degree, nodes_to_draw, subgraph>>
    /\ UNCHANGED tab4_vars

\* an input file that holds malformed urls
InitMalformed == \E f \in Files(MalformedRecords, 1, MaxRows) : InitWith(f)

\* df = load_data(): computed on the first call, served from the cache after
LoadData ==
    /\ pc = "load"
    /\ cache' = IF cache = {} THEN {load_data_body(file)} ELSE cache
    /\ loads' = IF cache = {} THEN loads + 1 ELSE loads
    /\ df' = CHOOSE d \in cache' : TRUE
    /\ pc' = "tab_start"
    /\ tab' = 1
    /\ UNCHANGED <<file, df_tab, i, G, min_degree, high_degree, nodes_to_draw, subgraph>>
    /\ UNCHANGED tab4_vars

\* df_tab = df.dropna(subset=[...]); G = nx.Graph()
StartTab ==
    /\ pc = "tab_start"
    /\ df_tab' = dropna(df, tab)
    /\ G' = EmptyGraph
    /\ i' = 0
    /\ pc' = "build"
    /\ UNCHANGED <<file, cache, df, tab, min_degree, high_degree, nodes_to_draw, subgraph>>
    /\ UNCHANGED <<loads, tab4_vars>>

\* one iteration of the build loop
AddRow ==
    /\ pc = "build"
    /\ i < Len(df_tab)
    /\ G' = AddRowTo(G, df_tab[i + 1], tab)
    /\ i' = i + 1
    /\ UNCHANGED <<file, cache, df, pc, tab, df_tab, min_degree, high_degree,
                   nodes_to_draw, subgraph>>
    /\ UNCHANGED <<loads, tab4_vars>>

\* number_input, hub selection, neighbourhood closure, induced subgraph
DegreeFilter ==
    /\ pc = "build"
    /\ i = Len(df_tab)
    /\ \E m \in Thresholds(tab) :
        /\ min_degree' = m
        /\ high_degree' = HighDegree(G, tab, m)
    /\ nodes_to_draw' = NodesToDraw(G, high_degree')
    /\ subgraph' = Subgraph(G, nodes_to_draw')
    /\ pc' = "tab_done"
    /\ UNCHANGED <<file, cache, df, tab, df_tab, i, G>>
    /\ UNCHANGED <<loads, tab4_vars>>

\* the script leaves the tab block; the next block re-binds the names
NextTab ==
    /\ pc = "tab_done"
    /\ IF tab < 3
       THEN /\ tab' = tab + 1
            /\ pc' = "tab_start"
       ELSE /\ tab' = tab
            /\ pc' = "tab4"
    /\ min_degree' = 0
    /\ high_degree' = {}
    /\ nodes_to_draw' = {}
    /\ subgraph' = EmptyGraph
    /\ UNCHANGED <<file, cache, df, df_tab, i, G>>
    /\ UNCHANGED <<loads, tab4_vars>>

\* the tab 4 block: load_data_with_time, the month selector, the counts of
\* the selected month and the headline; an exception ends the run
\* (load_data_with_time is cached as well; the file does not change during a
\* process, so the cached table is the table its body computes)
Tab4 ==
    /\ pc = "tab4"
    /\ IF \E k \in 1..Len(file) : to_datetime_raises(file[k].submission_time)
       THEN /\ pc' = "error"
            /\ UNCHANGED tab4_vars
       ELSE /\ df_time' = load_data_with_time_body(file)
            /\ month_lookup' = MonthLookup(df_time')
            /\ \E o \in 1..Len(month_lookup') :
                   selected_label' = <<month_lookup'[o].month_label>>
            /\ IF MatchingKeys(month_lookup', selected_label'[1]) = <<>>
               THEN /\ pc' = "error"
                    /\ UNCHANGED <<target_counts, headline>>
               ELSE LET selected_key ==
                            MatchingKeys(month_lookup', selected_label'[1])[1].month_key
                        df_month == MonthRows(df_time', selected_key)
                    IN  /\ target_counts' = value_counts(df_month)
                        /\ headline' = <<Headline(target_counts')>>
                        /\ pc' = "done"
    /\ UNCHANGED <<file, cache, df, tab, df_tab, i, G, min_degree, high_degree,
                   nodes_to_draw, subgraph, loads>>

\* a user interaction reruns the script from the top, also after a run that
\* ended in an exception; only the cache survives
Rerun ==
    /\ pc \in {"done", "error"}
    /\ pc' = "load"
    /\ tab' = 1
    /\ df' = <<>>
    /\ df_tab' = <<>>
    /\ i' = 0
    /\ G' = EmptyGraph
    /\ df_time' = <<>>
    /\ month_lookup' = <<>>
    /\ selected_label' = <<>>
    /\ target_counts' = <<>>
    /\ headline' = <<>>
    /\ UNCHANGED <<file, cache, min_degree, high_degree, nodes_to_draw, subgraph, loads>>

Next == LoadData \/ StartTab \/ AddRow \/ DegreeFilter \/ NextTab \/ Tab4 \/ Rerun

Spec == Init /\ [][Next]_vars

SpecScenario == InitScenario /\ [][Next]_vars

SpecMalformed == InitMalformed /\ [][Next]_vars

SpecTime == InitTime /\ [][Next]_vars

(***************************************************************************)
(* Properties.                                                             *)
(***************************************************************************)
\* the degree filter of the current tab has produced its result
FilterDone == pc = "tab_done"

\* the build loop of the current tab has consumed every row
GraphBuilt == (pc = "build" /\ i = Len(df_tab)) \/ pc = "tab_done"

\* what the degree filter of the current tab yields for the threshold m
HubsAt(m) == HighDegree(G, tab, m)
SubgraphAt(m) == Subgraph(G, NodesToDraw(G, HubsAt(m)))

\* C1: neighbourhood closure soundness: every node of the induced subgraph
\* is a selected hub or adjacent in the full graph to a selected hub, and no
\* edge of the induced subgraph has an endpoint outside the working node set.
NeighbourhoodClosureSound ==
    FilterDone =>
        /\ \A n \in Nodes(subgraph) :
               n \in high_degree \/ \E h \in high_degree : {n, h} \in Edges(G)
        /\ \A e \in Edges(subgraph) : e \subseteq nodes_to_draw

\* a hub's neighbourhood is shown while a node two hops away is left out
NeighbourhoodClosureWitness ==
    /\ FilterDone
    /\ \E h \in high_degree : \E n \in Nodes(subgraph) \ high_degree :
           /\ {n, h} \in Edges(G)
           /\ \E x \in Nodes(G) \ Nodes(subgraph) : {n, x} \in Edges(G)

\* C2: induced subgraph exactness: the node set is exactly the hubs plus
\* their direct neighbours, the edge set exactly the edges of the full graph
\* with both endpoints in that set.
InducedSubgraphExact ==
    FilterDone =>
        LET W == high_degree \cup {n \in Nodes(G) : \E h \in high_degree : {n, h} \in Edges(G)}
        IN  /\ nodes_to_draw = W
            /\ Nodes(subgraph) = W
            /\ Edges(subgraph) = {e \in Edges(G) : e \subseteq W}

\* the subgraph keeps some edges of the full graph and drops others
InducedSubgraphWitness ==
    /\ FilterDone
    /\ Edges(subgraph) # {}
    /\ Edges(G) \ Edges(subgraph) # {}
    /\ \E e \in Edges(G) \ Edges(subgraph) : e \cap nodes_to_draw # {}

\* C3: monotonicity: against the result for any other threshold of the same
\* graph and tab, the result for the larger threshold has a hub set, a node
\* set and an edge set included in (and counts at most) those of the smaller.
Monotone ==
    FilterDone =>
        \A m \in Thresholds(tab) :
            LET lo == IF m <= min_degree THEN SubgraphAt(m) ELSE subgraph
                hi == IF m <= min_degree THEN subgraph ELSE SubgraphAt(m)
                hubsLo == IF m <= min_degree THEN HubsAt(m) ELSE high_degree
                hubsHi == IF m <= min_degree THEN high_degree ELSE HubsAt(m)
            IN  /\ hubsHi \subseteq hubsLo
                /\ Cardinality(hubsHi) <= Cardinality(hubsLo)
                /\ Nodes(hi) \subseteq Nodes(lo)
                /\ NumberOfNodes(hi) <= NumberOfNodes(lo)
                /\ Edges(hi) \subseteq Edges(lo)
                /\ NumberOfEdges(hi) <= NumberOfEdges(lo)

\* raising the threshold strictly shrinks a result that stays non-empty
MonotoneWitness ==
    /\ FilterDone
    /\ high_degree # {}
    /\ \E m \in Thresholds(tab) :
           /\ m < min_degree
           /\ Cardinality(HubsAt(m)) > Cardinality(high_degree)
           /\ NumberOfNodes(SubgraphAt(m)) > NumberOfNodes(subgraph)
           /\ NumberOfEdges(SubgraphAt(m)) > NumberOfEdges(subgraph)

\* C4: empty-threshold edge case: with min_degree above the degree of every
\* node of the filtered kind, the filter yields no hub and a subgraph with
\* zero nodes and zero edges.
EmptyAboveMaxDegree ==
    (FilterDone /\ \A n \in Nodes(G) :
                       G.node[n] = FilterKind(tab) => min_degree > Degree(G, n))
        => /\ Cardinality(high_degree) = 0
           /\ NumberOfNodes(subgraph) = 0
           /\ NumberOfEdges(subgraph) = 0

\* the graph has nodes of the filtered kind, and others of a degree that
\* reaches the threshold, yet the threshold is above every filtered-kind degree
EmptyAboveMaxDegreeWitness ==
    /\ FilterDone
    /\ \E n \in Nodes(G) : G.node[n] = FilterKind(tab)
    /\ \A n \in Nodes(G) : G.node[n] = FilterKind(tab) => min_degree > Degree(G, n)
    /\ \E n \in Nodes(G) : Degree(G, n) >= min_degree
    /\ subgraph = EmptyGraph

\* C5: degree correctness: for every node of the full graph the degree that
\* hub selection compares with the threshold equals the number of distinct
\* nodes adjacent to it.
DegreeIsDistinctNeighbours ==
    GraphBuilt =>
        \A n \in Nodes(G) :
            Degree(G, n) = Cardinality({v \in Nodes(G) : {n, v} \in Edges(G)})

ConcreteScenario ==
    (FilterDone /\ tab = 1 /\ min_degree = 2) =>
        /\ high_degree = {Ip1}
        /\ Degree(G, Ip1) = 3
        /\ Nodes(subgraph) = {Ip1, "d1.example", "d2.example", "d3.example"}
        /\ NumberOfEdges(subgraph) = 3
        /\ Cardinality(Edges(subgraph)) = 3
        /\ Ip2 \notin Nodes(subgraph)
        /\ {"d1.example", Ip2} \notin Edges(subgraph)

\* the ip view of the scenario relation has been filtered with min_degree 2
ConcreteScenarioWitness ==
    /\ FilterDone /\ tab = 1 /\ min_degree = 2
    /\ {[domain |-> df_tab[k].domain, ip |-> df_tab[k].ip] : k \in 1..Len(df_tab)} =
           { [domain |-> "d1.example", ip |-> Ip1], [domain |-> "d1.example", ip |-> Ip2],
             [domain |-> "d2.example", ip |-> Ip1], [domain |-> "d3.example", ip |-> Ip1] }
    /\ high_degree = {Ip1}
    /\ {"d1.example", Ip2} \in Edges(G)

\* the rows of a table in the order p
Permute(rows, p) == [k \in 1..Len(rows) |-> rows[p[k]]]

\* C8: build idempotence and row-order independence: building from any
\* permutation of the table's rows yields the same node set, the same kind
\* on every node and the same edge set.
BuildOrderIndependent ==
    GraphBuilt =>
        \A p \in Permutations(1..Len(df_tab)) :
            LET H == BuildGraph(EmptyGraph, Permute(df_tab, p), tab)
            IN  /\ Nodes(H) = Nodes(G)
                /\ \A n \in Nodes(G) : H.node[n] = G.node[n]
                /\ Edges(H) = Edges(G)

\* the kind under which the rows first present the key n
RECURSIVE FirstKind(_, _, _)
FirstKind(rows, t, n) ==
    IF rows = <<>> THEN None
    ELSE IF Head(rows).domain = n THEN "domain"
    ELSE IF Col(Head(rows), OtherColumn(t)) = n THEN OtherColumn(t)
    ELSE FirstKind(Tail(rows), t, n)

\* C9: first insertion sticks: after any sequence of row insertions every
\* node's kind is the kind it was given on its first insertion.
FirstInsertionSticks ==
    (pc = "build" \/ pc = "tab_done") =>
        \A n \in Nodes(G) : G.node[n] = FirstKind(SubSeq(df_tab, 1, i), tab, n)

\* C10: graph well-formedness: every edge's two endpoints are nodes of the
\* graph and no edge is a self-loop.
WellFormedNoSelfLoop ==
    (pc = "build" \/ pc = "tab_done") =>
        \A e \in Edges(G) : e \subseteq Nodes(G) /\ Cardinality(e) = 2

\* C15: inclusive minimum threshold is never empty: in a view that compares
\* inclusively, when some node of the filtered kind has an edge, min_degree 1
\* gives a non-empty hub set and a non-empty induced subgraph.
InclusiveMinimumNonEmpty ==
    (/\ FilterDone
     /\ FilterKind(tab) # "ip"
     /\ min_degree = 1
     /\ \E n \in Nodes(G) : G.node[n] = FilterKind(tab) /\ Neighbors(G, n) # {})
        => /\ high_degree # {}
           /\ NumberOfNodes(subgraph) > 0

\* an inclusive view filtered with min_degree 1 whose hubs all have degree 1
InclusiveMinimumWitness ==
    /\ FilterDone
    /\ FilterKind(tab) # "ip"
    /\ min_degree = 1
    /\ high_degree # {}
    /\ \A h \in high_degree : Degree(G, h) = 1

\* C16: single-hop expansion only: every node of the filtered kind in the
\* induced subgraph is itself a selected hub.
SingleHopOnly ==
    FilterDone =>
        \A n \in Nodes(subgraph) : subgraph.node[n] = FilterKind(tab) => n \in high_degree

\* C17: hub-incident edges: every edge of the induced subgraph has a selected
\* hub as an endpoint, the displayed edge count is the sum of the hubs'
\* degrees in the full graph, and the hub count is at most the node count.
HubIncidentEdges ==
    FilterDone =>
        /\ \A e \in Edges(subgraph) : e \cap high_degree # {}
        /\ NumberOfEdges(subgraph) = SumDegree(G, high_degree)
        /\ Cardinality(high_degree) <= NumberOfNodes(subgraph)

\* a url without a parseable network location
MalformedUrl(url) == url \in {UrlNoNetloc, UrlBad}

\* the rows whose url is well formed
RECURSIVE WellFormedRows(_)
WellFormedRows(rows) ==
    IF rows = <<>> THEN <<>>
    ELSE IF MalformedUrl(Head(rows).url) THEN WellFormedRows(Tail(rows))
         ELSE <<Head(rows)>> \o WellFormedRows(Tail(rows))

\* C11: malformed URL handling: a record with a malformed url has no domain,
\* and the tab's graph is the graph of the records with well-formed urls
\* alone (the malformed record adds no node and no edge).
MalformedUrlExcluded ==
    /\ pc # "load" =>
           \A k \in 1..Len(df) : MalformedUrl(df[k].url) => df[k].domain = None
    /\ GraphBuilt =>
           LET H == BuildGraph(EmptyGraph, WellFormedRows(dropna(df, tab)), tab)
           IN  Nodes(G) = Nodes(H) /\ Edges(G) = Edges(H)

\* the records of the file that fall in the month of the selected label
SelectedMonthRecords ==
    {k \in 1..Len(file) :
        /\ file[k].submission_time.kind = "iso"
        /\ <<MonthNames[file[k].submission_time.m], file[k].submission_time.y>>
               = selected_label[1].text}

\* how many records of the selected month name the target t
BucketCount(t) == Cardinality({k \in SelectedMonthRecords : file[k].target = t})

\* the named targets of the selected month
NamedTargets == {file[k].target : k \in SelectedMonthRecords} \ {"Other"}

\* the position of the target t in the count ordering
CountOrder(t) == CHOOSE k \in 1..Len(target_counts) : target_counts[k].index = t

\* C12: top named target: the reported top target of the selected month is
\* never "Other", its count is the largest among the month's named targets,
\* among named targets tied at that count it is the first of the count
\* ordering, and a month of "Other" records alone gives the explicit
\* "no named target" result.
TopNamedTarget ==
    (pc = "done" /\ headline # <<>>) =>
        IF NamedTargets = {}
        THEN headline[1].kind = "none"
        ELSE /\ headline[1].kind = "top"
             /\ headline[1].target \in NamedTargets
             /\ headline[1].count = BucketCount(headline[1].target)
             /\ \A t \in NamedTargets :
                    /\ BucketCount(t) <= headline[1].count
                    /\ BucketCount(t) = headline[1].count
                           => CountOrder(headline[1].target) <= CountOrder(t)

\* a month in which two named targets tie at the maximum behind "Other"
TopNamedTargetWitness ==
    /\ pc = "done"
    /\ headline # <<>>
    /\ headline[1].kind = "top"
    /\ target_counts[1].index = "Other"
    /\ \E t \in NamedTargets \ {headline[1].target} : BucketCount(t) = headline[1].count

\* a month of "Other" records alone
NoNamedTargetWitness ==
    /\ pc = "done"
    /\ headline = <<[kind |-> "none", target |-> "", count |-> 0]>>
    /\ SelectedMonthRecords # {}

\* the file holds a record whose submission_time is missing or no timestamp
HasBadSubmissionTime == \E k \in 1..Len(file) : file[k].submission_time.kind # "iso"

\* C13: unparseable or missing submission_time: a record whose
\* submission_time is missing or cannot be parsed never aborts the run, is
\* not offered as a selectable month and is counted in no month's target
\* table, and the other records are counted in their months.
BadSubmissionTimeExcluded ==
    HasBadSubmissionTime =>
        /\ pc # "error"
        /\ \A k \in 1..Len(month_lookup) : month_lookup[k].month_label # NaN
        /\ (pc = "done" /\ headline # <<>>) =>
               /\ \A k \in 1..Len(target_counts) :
                      target_counts[k].count = BucketCount(target_counts[k].index)
               /\ {target_counts[k].index : k \in 1..Len(target_counts)}
                      = {file[k].target : k \in SelectedMonthRecords}

\* C14: load-once cache: over any sequence of reruns load_data computes at
\* most once, every graph build and degree filter reads the cached table,
\* and once filled the cache never changes.
LoadOnceCache ==
    /\ [](loads <= 1)
    /\ [](pc \in {"tab_start", "build", "tab_done"} =>
              cache = {df} /\ df = load_data_body(file))
    /\ [][cache # {} => cache' = cache /\ loads' = loads]_vars

\* a rerun that finds the table of the first run in the cache
LoadOnceCacheWitness ==
    /\ pc = "load"
    /\ loads = 1
    /\ cache = {load_data_body(file)}

====
